---- MODULE Spec2Model ----
(***************************************************************************)
(* A model of src/dbscan.py: the Cluster class with its class-wide id      *)
(* counter, and the DBSCAN engine (constructor, region query, cluster      *)
(* expansion, run).                                                        *)
(*                                                                         *)
(* A point is the tuple <<id, x, y>> (Python (id, x, y); Python index 1 is *)
(* TLA+ index 2, Python index 2 is TLA+ index 3).  Coordinates are         *)
(* integers.  The caller's eps is a rational number epsArg / EpsDen, so    *)
(* that eps = 1.5 is epsArg = 3; self.eps = eps*eps is kept as the integer *)
(* epsArg*epsArg, in units of 1 / EpsDen^2, and a squared distance d is    *)
(* compared with it as d * EpsDen^2 <= epsArg^2.  All the values involved  *)
(* are exact in binary floating point, so the comparison is the one Python *)
(* makes.                                                                  *)
(***************************************************************************)
EXTENDS Integers, Sequences, FiniteSets, TLC

VARIABLES
    D,                \* self.D: the dataset, a sequence of points
    epsArg,           \* the eps argument of the constructor (numerator over EpsDen)
    eps,              \* self.eps: the squared threshold
    minPts,           \* self.minPts
    Clusters,         \* self.Clusters: sequence of [cid, pts]
    NOISE,            \* self.NOISE
    visited,          \* self.visited
    cid,              \* Cluster.cid: the class-wide id counter
    pc,               \* "new", "run" (outer loop), "expand" (inner loop), "done"
    i,                \* position of the outer loop of run() in D
    NeighborhoodPts,  \* the worklist of the running __expandCluster
    k,                \* position of the loop of __expandCluster in the worklist
    results           \* what the calls of run() returned, oldest first

vars == <<D, epsArg, eps, minPts, Clusters, NOISE, visited, cid, pc, i,
          NeighborhoodPts, k, results>>

----------------------------------------------------------------------------
(* Bounds *)

MaxLen == 3

MaxMinPts == 4

MaxRuns == 2

EpsDen == 2

\* eps = -1, 0, 1, 1.5, 2
EpsValues == {-2, 0, 2, 3, 4}

\* B and the second A are at one place; A - B - E is a chain for eps = 1
Pts == { <<"A", 0, 0>>, <<"B", 0, 1>>, <<"A", 0, 1>>, <<"E", 1, 1>> }

\* the scenario of four points on which a chain A - B - C is followed
ScenarioLine == << <<"A", 0, 0>>, <<"B", 0, 1>>, <<"C", 0, 2>>, <<"D", 10, 10>> >>

\* two dense regions around Q and R that share the border points P1 and P2
ScenarioBridge == << <<"Q", -1, 0>>, <<"P1", 0, 1>>, <<"P2", 0, -1>>,
                     <<"S", -2, 0>>, <<"R", 1, 0>>, <<"T", 2, 0>> >>

Datasets == (UNION { [1..n -> Pts] : n \in 0..MaxLen })
                \cup {ScenarioLine, ScenarioBridge}

----------------------------------------------------------------------------
(* Helpers *)

\* Python's "p in list" on tuples: equality of all three fields
InSeq(p, s) == \E n \in 1..Len(s) : s[n] = p

Range(s) == { s[n] : n \in 1..Len(s) }

\* (p[1] - pt[1])**2 + (p[2] - pt[2])**2
SqDist(p, pt) == (p[2] - pt[2]) * (p[2] - pt[2]) + (p[3] - pt[3]) * (p[3] - pt[3])

\* EpsSquared that keeps eps as it is given
EpsNotSquared(e) == e

\* self.eps = eps*eps
EpsSquared(e) == e * e

\* WithinEps with the comparison turned around
WithinEpsFlipped(p, pt) == SqDist(p, pt) * EpsDen * EpsDen >= eps

\* the test of the list comprehension of __regionQuery
WithinEps(p, pt) == SqDist(p, pt) * EpsDen * EpsDen <= eps

\* __regionQuery(pt): the entries of D within the threshold, in the order of D
RegionQuery(pt) == SelectSeq(D, LAMBDA p : WithinEps(p, pt))

\* TooFew with <= for <
TooFewInclusive(N) == Len(N) <= minPts

\* TooFew, off by one the other way
TooFewOffByOne(N) == Len(N) < minPts - 1

\* len(NeighborhoodPts) < self.minPts in run()
TooFew(N) == Len(N) < minPts

\* IsDense with > for >=
IsDenseStrict(N) == Len(N) > minPts

\* len(NewNeighborhoodPts) >= minPts in __expandCluster
IsDense(N) == Len(N) >= minPts

\* Cluster(): a cluster with the current id and no points
NewCluster(c) == [cid |-> c, pts |-> <<>>]

\* AddPoint that puts the point at the head of the list
AddPointFront(Cs, ci, p) == [Cs EXCEPT ![ci].pts = <<p>> \o @]

\* cluster.addPoint(p) on the cluster at position ci of Cs
AddPoint(Cs, ci, p) == [Cs EXCEPT ![ci].pts = Append(@, p)]

\* ExtendNeighborhood without the "not in NeighborhoodPts" test
ExtendNeighborhoodAll(N, New, n) == N \o New

\* ExtendNeighborhood that appends nothing
ExtendNeighborhoodNone(N, New, n) == N

\* for n in NewNeighborhoodPts: if n not in NeighborhoodPts: append n
RECURSIVE ExtendNeighborhood(_, _, _)
ExtendNeighborhood(N, New, n) ==
    IF n > Len(New) THEN N
    ELSE IF ~InSeq(New[n], N)
         THEN ExtendNeighborhood(Append(N, New[n]), New, n + 1)
         ELSE ExtendNeighborhood(N, New, n + 1)

\* CheckClusters with "p in cluster.pts" for "p not in cluster.pts"
RECURSIVE CheckClustersIn(_, _, _)
CheckClustersIn(Cs, ci, p) ==
    IF ci > Len(Cs) THEN Cs
    ELSE IF InSeq(p, Cs[ci].pts) /\ ~InSeq(p, Cs[Len(Cs)].pts)
         THEN AddPoint(Cs, Len(Cs), p)
         ELSE CheckClustersIn(Cs, ci + 1, p)

\* CheckClusters without the "p not in C.pts" test
RECURSIVE CheckClustersNoC(_, _, _)
CheckClustersNoC(Cs, ci, p) ==
    IF ci > Len(Cs) THEN Cs
    ELSE IF ~InSeq(p, Cs[ci].pts)
         THEN AddPoint(Cs, Len(Cs), p)
         ELSE CheckClustersNoC(Cs, ci + 1, p)

\* for cluster in Clusters: if p not in cluster.pts: if p not in C.pts: add, break
\* C is the cluster created last, the last entry of Cs
RECURSIVE CheckClusters(_, _, _)
CheckClusters(Cs, ci, p) ==
    IF ci > Len(Cs) THEN Cs
    ELSE IF ~InSeq(p, Cs[ci].pts) /\ ~InSeq(p, Cs[Len(Cs)].pts)
         THEN AddPoint(Cs, Len(Cs), p)
         ELSE CheckClusters(Cs, ci + 1, p)

----------------------------------------------------------------------------
(* The engine *)

\* DBSCAN(D, eps, minPts) in a fresh process
Init ==
    /\ D \in Datasets
    /\ epsArg \in EpsValues
    /\ minPts \in 0..MaxMinPts
    /\ eps = EpsSquared(epsArg)
    /\ Clusters = <<>>
    /\ NOISE = <<>>
    /\ visited = <<>>
    /\ cid = 0
    /\ pc = "new"
    /\ i = 1
    /\ NeighborhoodPts = <<>>
    /\ k = 1
    /\ results = <<>>

\* CallRun that creates a Cluster before the loop looks at any point
CallRunFresh ==
    /\ pc \in {"new", "done"}
    /\ Len(results) < MaxRuns
    /\ pc' = "run"
    /\ i' = 1
    /\ cid' = cid + 1
    /\ UNCHANGED <<D, epsArg, eps, minPts, Clusters, NOISE, visited,
                   NeighborhoodPts, k, results>>

\* CallRun that empties the visited list at the start of each call
CallRunReset ==
    /\ pc \in {"new", "done"}
    /\ Len(results) < MaxRuns
    /\ pc' = "run"
    /\ i' = 1
    /\ visited' = <<>>
    /\ UNCHANGED <<D, epsArg, eps, minPts, Clusters, NOISE, cid,
                   NeighborhoodPts, k, results>>

\* a call of run() on the engine: the outer loop starts at the head of D
CallRun ==
    /\ pc \in {"new", "done"}
    /\ Len(results) < MaxRuns
    /\ pc' = "run"
    /\ i' = 1
    /\ UNCHANGED <<D, epsArg, eps, minPts, Clusters, NOISE, visited, cid,
                   NeighborhoodPts, k, results>>

\* run(): pt is already in visited
RunSkip ==
    /\ pc = "run"
    /\ i <= Len(D)
    /\ InSeq(D[i], visited)
    /\ i' = i + 1
    /\ UNCHANGED <<D, epsArg, eps, minPts, Clusters, NOISE, visited, cid, pc,
                   NeighborhoodPts, k, results>>

\* run(): pt is new and its neighborhood is too small
RunNoise ==
    /\ pc = "run"
    /\ i <= Len(D)
    /\ ~InSeq(D[i], visited)
    /\ TooFew(RegionQuery(D[i]))
    /\ visited' = Append(visited, D[i])
    /\ NOISE' = Append(NOISE, D[i])
    /\ i' = i + 1
    /\ UNCHANGED <<D, epsArg, eps, minPts, Clusters, cid, pc,
                   NeighborhoodPts, k, results>>

\* run(): pt is new and dense: a new cluster, and __expandCluster starts
\* (its first statement, C.addPoint(pt), included)
RunCluster ==
    /\ pc = "run"
    /\ i <= Len(D)
    /\ ~InSeq(D[i], visited)
    /\ ~TooFew(RegionQuery(D[i]))
    /\ visited' = Append(visited, D[i])
    /\ Clusters' = AddPoint(Append(Clusters, NewCluster(cid)),
                            Len(Clusters) + 1, D[i])
    /\ cid' = cid + 1
    /\ NeighborhoodPts' = RegionQuery(D[i])
    /\ k' = 1
    /\ pc' = "expand"
    /\ UNCHANGED <<D, epsArg, eps, minPts, NOISE, i, results>>

\* ExpandStep without the "p not in visited" test
ExpandStepNoCheck ==
    /\ pc = "expand"
    /\ k <= Len(NeighborhoodPts)
    /\ LET p == NeighborhoodPts[k]
           New == RegionQuery(p)
       IN  /\ visited' = Append(visited, p)
           /\ NeighborhoodPts' =
                IF IsDense(New)
                THEN ExtendNeighborhood(NeighborhoodPts, New, 1)
                ELSE NeighborhoodPts
           /\ Clusters' = CheckClusters(Clusters, 1, p)
    /\ k' = k + 1
    /\ UNCHANGED <<D, epsArg, eps, minPts, NOISE, cid, pc, i, results>>

\* one iteration of "for p in NeighborhoodPts" of __expandCluster
ExpandStep ==
    /\ pc = "expand"
    /\ k <= Len(NeighborhoodPts)
    /\ LET p == NeighborhoodPts[k]
           New == RegionQuery(p)
       IN  /\ IF ~InSeq(p, visited)
              THEN /\ visited' = Append(visited, p)
                   /\ NeighborhoodPts' =
                        IF IsDense(New)
                        THEN ExtendNeighborhood(NeighborhoodPts, New, 1)
                        ELSE NeighborhoodPts
              ELSE UNCHANGED <<visited, NeighborhoodPts>>
           /\ Clusters' = CheckClusters(Clusters, 1, p)
    /\ k' = k + 1
    /\ UNCHANGED <<D, epsArg, eps, minPts, NOISE, cid, pc, i, results>>

\* ExpandReturn of a loop over the worklist as it was when the pass began
ExpandReturnEarly ==
    /\ pc = "expand"
    /\ k > Len(RegionQuery(Clusters[Len(Clusters)].pts[1]))
    /\ pc' = "run"
    /\ i' = i + 1
    /\ UNCHANGED <<D, epsArg, eps, minPts, Clusters, NOISE, visited, cid,
                   NeighborhoodPts, k, results>>

\* the worklist is exhausted: __expandCluster returns to the outer loop
ExpandReturn ==
    /\ pc = "expand"
    /\ k > Len(NeighborhoodPts)
    /\ pc' = "run"
    /\ i' = i + 1
    /\ UNCHANGED <<D, epsArg, eps, minPts, Clusters, NOISE, visited, cid,
                   NeighborhoodPts, k, results>>

\* return (self.Clusters, self.NOISE)
Return ==
    /\ pc = "run"
    /\ i > Len(D)
    /\ pc' = "done"
    /\ results' = Append(results, [epsArg |-> epsArg, minPts |-> minPts,
                                   Clusters |-> Clusters, NOISE |-> NOISE])
    /\ UNCHANGED <<D, epsArg, eps, minPts, Clusters, NOISE, visited, cid, i,
                   NeighborhoodPts, k>>

\* NewEngine with a cluster id counter that starts again for each engine
NewEngineResetCid ==
    /\ pc = "done"
    /\ Len(results) < MaxRuns
    /\ \E e \in EpsValues :
         /\ e > epsArg
         /\ epsArg' = e
         /\ eps' = EpsSquared(e)
    /\ Clusters' = <<>>
    /\ NOISE' = <<>>
    /\ visited' = <<>>
    /\ cid' = 0
    /\ pc' = "new"
    /\ UNCHANGED <<D, minPts, i, NeighborhoodPts, k, results>>

\* DBSCAN(D, e, minPts): another engine on the same dataset and with the same
\* minPts, in the same process (Cluster.cid is kept); the caller goes through
\* the values of eps upwards
NewEngine ==
    /\ pc = "done"
    /\ Len(results) < MaxRuns
    /\ \E e \in EpsValues :
         /\ e > epsArg
         /\ epsArg' = e
         /\ eps' = EpsSquared(e)
    /\ Clusters' = <<>>
    /\ NOISE' = <<>>
    /\ visited' = <<>>
    /\ pc' = "new"
    /\ UNCHANGED <<D, minPts, cid, i, NeighborhoodPts, k, results>>

Next ==
    \/ CallRun
    \/ RunSkip
    \/ RunNoise
    \/ RunCluster
    \/ ExpandStep
    \/ ExpandReturn
    \/ Return
    \/ NewEngine

Spec == Init /\ [][Next]_vars

\* the steps of run() are taken as long as one is enabled; the caller may stop
\* calling
FairSpec == Spec /\ WF_vars(RunSkip \/ RunNoise \/ RunCluster \/ ExpandStep
                              \/ ExpandReturn \/ Return)

----------------------------------------------------------------------------
(* Properties *)

Returned == pc = "done"

ValidParams == epsArg >= 0 /\ minPts >= 1

DistinctTriples == \A a, b \in 1..Len(D) : a # b => D[a] # D[b]

InSomeCluster(p) == \E c \in 1..Len(Clusters) : InSeq(p, Clusters[c].pts)

\* q lies within the caller's eps of p
Near(p, q) == epsArg >= 0 /\ SqDist(p, q) * EpsDen * EpsDen <= epsArg * epsArg

\* the number of dataset entries in the eps-neighborhood of p, p included
NbCount(p) == Cardinality({ n \in 1..Len(D) : Near(D[n], p) })

CorePoint(p) == NbCount(p) >= minPts

\* p lies in the neighborhood of a core point, so an expansion reaches it
NearCore(p) == \E n \in 1..Len(D) : CorePoint(D[n]) /\ Near(D[n], p)

\* C1: when run() returns, on pairwise distinct triples and valid parameters,
\* no point is both in the noise list and in a cluster
C1_NoiseNotInCluster ==
    (Returned /\ DistinctTriples /\ ValidParams)
        => \A n \in 1..Len(NOISE) : ~InSomeCluster(NOISE[n])

\* C2: when run() returns, on pairwise distinct triples, the member lists of
\* the clusters are pairwise disjoint
C2_ClustersDisjoint ==
    (Returned /\ DistinctTriples /\ ValidParams)
        => \A a, b \in 1..Len(Clusters) :
              a # b => Range(Clusters[a].pts) \cap Range(Clusters[b].pts) = {}

\* C3: when run() returns, every point of the dataset is in a cluster or in
\* the noise list
C3_NoPointOmitted ==
    (Returned /\ ValidParams)
        => \A n \in 1..Len(D) : InSeq(D[n], NOISE) \/ InSomeCluster(D[n])

\* a returned run in which a point was absorbed by an expansion and another
\* one is noise
C3_Witness ==
    /\ Returned /\ ValidParams /\ Len(D) >= 3
    /\ NOISE # <<>>
    /\ \E c \in 1..Len(Clusters) : Len(Clusters[c].pts) >= 2

\* C4: with eps < 0 or minPts < 1 nothing is scanned, nothing is marked
\* visited and run() returns no clusters and no noise
C4_InvalidParamsRejected ==
    (epsArg < 0 \/ minPts < 1)
        => /\ visited = <<>>
           /\ Clusters = <<>>
           /\ NOISE = <<>>
           /\ results = <<>>

\* C5: with the dataset and minPts >= 1 fixed, the run with the larger
\* eps >= 0 returns a noise list that is not longer
C5_NoiseMonotoneInEps ==
    \A a, b \in 1..Len(results) :
        ( /\ results[a].minPts >= 1
          /\ results[a].minPts = results[b].minPts
          /\ 0 <= results[a].epsArg
          /\ results[a].epsArg <= results[b].epsArg )
        => Len(results[b].NOISE) <= Len(results[a].NOISE)

\* two runs, the second with a larger eps and with less noise
C5_Witness ==
    /\ Returned /\ Len(results) = 2
    /\ results[1].minPts >= 2
    /\ 0 <= results[1].epsArg
    /\ results[1].epsArg < results[2].epsArg
    /\ Len(results[2].NOISE) < Len(results[1].NOISE)
    /\ results[2].NOISE # <<>>

\* C6: a point with exactly minPts points in its neighborhood is never put in
\* the noise list and ends in a cluster; a point with minPts - 1 that no
\* expansion reaches ends in the noise list and in no cluster
C6_MinPtsBoundary ==
    ValidParams
        => \A n \in 1..Len(D) :
              /\ NbCount(D[n]) = minPts
                    => /\ ~InSeq(D[n], NOISE)
                       /\ Returned => InSomeCluster(D[n])
              /\ (NbCount(D[n]) = minPts - 1 /\ ~NearCore(D[n]) /\ Returned)
                    => /\ InSeq(D[n], NOISE)
                       /\ ~InSomeCluster(D[n])

\* a returned run with a point at exactly minPts and one at minPts - 1
C6_Witness ==
    /\ Returned /\ ValidParams /\ minPts >= 2
    /\ \E n \in 1..Len(D) : NbCount(D[n]) = minPts /\ InSomeCluster(D[n])
    /\ \E n \in 1..Len(D) :
          NbCount(D[n]) = minPts - 1 /\ ~NearCore(D[n]) /\ InSeq(D[n], NOISE)

\* the seed of the cluster that was expanded last
LastSeed == Clusters[Len(Clusters)].pts[1]

\* C7: every run returns, and while a cluster is expanded the worklist only
\* receives points that are not yet in it and never holds more entries than
\* the dataset
C7_RunTerminates ==
    /\ (pc = "run" \/ pc = "expand") ~> (pc = "done")
    /\ [](Len(NeighborhoodPts) <= Len(D))
    /\ [][(pc = "expand" /\ pc' = "expand")
            => /\ SubSeq(NeighborhoodPts', 1, Len(NeighborhoodPts))
                    = NeighborhoodPts
               /\ \A n \in (Len(NeighborhoodPts) + 1)..Len(NeighborhoodPts') :
                     \A m \in 1..(n - 1) :
                        NeighborhoodPts'[m] # NeighborhoodPts'[n]]_vars

\* a returned run whose last expansion grew the worklist to the whole dataset
C7_Witness ==
    /\ Returned /\ ValidParams /\ Len(D) >= 3
    /\ Clusters # <<>>
    /\ Len(NeighborhoodPts) = Len(D)
    /\ Len(RegionQuery(LastSeed)) < Len(NeighborhoodPts)

\* C8: on [(A,0,0), (B,0,1), (C,0,2), (D,10,10)] with eps = 1.5 and
\* minPts = 2 run() returns one cluster of A, B and C, and the noise list [D]
C8_LineScenario ==
    (Returned /\ D = ScenarioLine /\ epsArg = 3 /\ minPts = 2)
        => /\ Len(Clusters) = 1
           /\ Len(Clusters[1].pts) = 3
           /\ Range(Clusters[1].pts)
                = { <<"A", 0, 0>>, <<"B", 0, 1>>, <<"C", 0, 2>> }
           /\ NOISE = << <<"D", 10, 10>> >>

\* the scenario has returned; C is not within eps of the seed A
C8_Witness ==
    /\ Returned /\ D = ScenarioLine /\ epsArg = 3 /\ minPts = 2
    /\ ~Near(<<"A", 0, 0>>, <<"C", 0, 2>>)
    /\ InSomeCluster(<<"C", 0, 2>>)

\* all the points of the dataset are within eps of each other
MutuallyNear == \A a, b \in 1..Len(D) : Near(D[a], D[b])

\* C9: on a non-empty dataset whose points are all within eps of each other,
\* with minPts the size of the dataset, run() returns one cluster that holds
\* every point, and no noise
C9_AllMutuallyNear ==
    (Returned /\ Len(D) >= 1 /\ MutuallyNear /\ minPts = Len(D))
        => /\ Len(Clusters) = 1
           /\ \A n \in 1..Len(D) : InSeq(D[n], Clusters[1].pts)
           /\ NOISE = <<>>

\* such a run on three distinct points that are not at one place
C9_Witness ==
    /\ Returned /\ Len(D) >= 3 /\ MutuallyNear /\ minPts = Len(D)
    /\ DistinctTriples
    /\ \E a, b \in 1..Len(D) : SqDist(D[a], D[b]) > 0
    /\ Len(Clusters) = 1

\* C10: with minPts greater than the number of points, run() returns no
\* cluster and every point is in the noise list
C10_MinPtsAboveSize ==
    (Returned /\ epsArg >= 0 /\ minPts > Len(D))
        => /\ Clusters = <<>>
           /\ \A n \in 1..Len(D) : InSeq(D[n], NOISE)

\* such a run on points that are all within eps of each other
C10_Witness ==
    /\ Returned /\ epsArg >= 0 /\ minPts = Len(D) + 1
    /\ Len(D) >= 2 /\ MutuallyNear
    /\ Len(NOISE) = Len(D)

\* C11: on the empty dataset run() returns an empty cluster list and an empty
\* noise list, and the cluster id counter is not advanced
C11_EmptyDataset ==
    (Returned /\ D = <<>>)
        => /\ \A r \in 1..Len(results) :
                 results[r].Clusters = <<>> /\ results[r].NOISE = <<>>
           /\ Clusters = <<>>
           /\ NOISE = <<>>
           /\ visited = <<>>
           /\ cid = 0

\* run() has returned on the empty dataset with valid parameters
C11_Witness ==
    /\ Returned /\ D = <<>> /\ ValidParams
    /\ Len(results) >= 1

\* the ids of the clusters of a cluster list
CidsOf(Cs) == { Cs[c].cid : c \in 1..Len(Cs) }

\* the ids of all the clusters that earlier runs returned
ReturnedCids == UNION { CidsOf(results[r].Clusters) : r \in 1..Len(results) }

\* C12: the ids of the clusters of an engine go up by one in discovery order,
\* and a cluster that is created gets an id that no cluster of this engine and
\* no cluster returned by an earlier run, of any engine, has
C12_CidsNeverReused ==
    /\ [](\A c \in 1..(Len(Clusters) - 1) :
             Clusters[c + 1].cid = Clusters[c].cid + 1)
    /\ [][Len(Clusters') > Len(Clusters)
            => /\ Len(Clusters') = Len(Clusters) + 1
               /\ Clusters'[Len(Clusters')].cid
                     \notin (CidsOf(Clusters) \cup ReturnedCids)]_vars

\* a second engine has returned clusters after a first engine returned two
C12_Witness ==
    /\ Returned /\ Len(results) = 2
    /\ results[1].epsArg # results[2].epsArg
    /\ Len(results[1].Clusters) >= 2
    /\ Len(results[2].Clusters) >= 1
    /\ CidsOf(results[1].Clusters) \cap CidsOf(results[2].Clusters) = {}

\* no value occurs twice in the sequence s
NoRepeat(s) == \A a, b \in 1..Len(s) : a # b => s[a] # s[b]

\* C13: the visited list never holds a value twice, so a value is the seed
\* of a region query at most once, also when the dataset repeats a triple
C13_VisitedOnce == NoRepeat(visited)

\* a returned run on a dataset that repeats a triple, in which an expansion
\* visited a point
C13_Witness ==
    /\ Returned /\ ValidParams
    /\ ~DistinctTriples
    /\ Len(visited) >= 2
    /\ \E c \in 1..Len(Clusters) : Len(Clusters[c].pts) >= 2

\* C14: no member list of a cluster ever holds a value twice; a triple that
\* the dataset repeats is once in the cluster that holds it
C14_NoRepeatInCluster ==
    \A c \in 1..Len(Clusters) : NoRepeat(Clusters[c].pts)

\* a returned run in which a triple that occurs twice in the dataset is a
\* member of a cluster with another point
C14_Witness ==
    /\ Returned /\ ValidParams
    /\ \E a, b \in 1..Len(D) :
          /\ a # b /\ D[a] = D[b]
          /\ \E c \in 1..Len(Clusters) :
                /\ InSeq(D[a], Clusters[c].pts)
                /\ Len(Clusters[c].pts) >= 2

\* the entries D[n], D[n+1], ... whose squared distance to p is at most the
\* square of the caller's eps, in the order of D
RECURSIVE WithinFrom(_, _)
WithinFrom(p, n) ==
    IF n > Len(D) THEN <<>>
    ELSE IF ((D[n][2] - p[2])^2 + (D[n][3] - p[3])^2) * EpsDen^2 <= epsArg^2
         THEN <<D[n]>> \o WithinFrom(p, n + 1)
         ELSE WithinFrom(p, n + 1)

\* C15: the region query of a point p, in the dataset or not, is the sequence
\* of the dataset entries q, in dataset order, with
\* (q.x - p.x)^2 + (q.y - p.y)^2 <= eps^2 for the caller's eps; the worklist
\* an expansion starts with is that sequence for the seed
C15_RegionQueryExact ==
    /\ [](\A p \in Pts \cup Range(D) : RegionQuery(p) = WithinFrom(p, 1))
    /\ [][(pc = "run" /\ pc' = "expand")
            => NeighborhoodPts' = WithinFrom(D[i], 1)]_vars

\* an expansion starts with a region that holds a point at exactly the
\* distance eps from the seed, under the same id as the seed, and that leaves
\* some point of the dataset out
C15_Witness ==
    /\ pc = "expand" /\ k = 1 /\ epsArg > 0 /\ minPts >= 1
    /\ \E a \in 1..Len(NeighborhoodPts) :
          /\ SqDist(NeighborhoodPts[a], LastSeed) * EpsDen * EpsDen
                = epsArg * epsArg
          /\ NeighborhoodPts[a][1] = LastSeed[1]
    /\ Len(NeighborhoodPts) < Len(D)

\* C16: while a cluster is expanded the worklist entries before the loop
\* position have been processed (they are visited and members of the cluster),
\* and the pass only ends when no entry is left, those appended during the
\* pass included: after the pass every worklist entry is a member of the
\* cluster that was expanded
C16_WorklistProcessed ==
    Clusters # <<>>
        => /\ pc = "expand" => k <= Len(NeighborhoodPts) + 1
           /\ \A n \in 1..Len(NeighborhoodPts) :
                 \/ pc = "expand" /\ n >= k
                 \/ /\ InSeq(NeighborhoodPts[n], visited)
                    /\ InSeq(NeighborhoodPts[n], Clusters[Len(Clusters)].pts)

\* a pass has ended whose worklist grew beyond the neighborhood of the seed
C16_Witness ==
    /\ pc = "run" /\ ValidParams
    /\ Clusters # <<>>
    /\ Len(NeighborhoodPts) > Len(RegionQuery(LastSeed))
    /\ InSeq(NeighborhoodPts[Len(NeighborhoodPts)], Clusters[Len(Clusters)].pts)

\* s is an initial part of t
IsPrefix(s, t) == Len(s) <= Len(t) /\ SubSeq(t, 1, Len(s)) = s

\* C17: in every step of a run the member list of each cluster, the cluster
\* list, the noise list and the visited list keep what they hold, in place,
\* and only gain entries at the end
C17_OnlyGrow ==
    [][pc' # "new"
         => /\ Len(Clusters) <= Len(Clusters')
            /\ \A c \in 1..Len(Clusters) :
                  /\ Clusters'[c].cid = Clusters[c].cid
                  /\ IsPrefix(Clusters[c].pts, Clusters'[c].pts)
            /\ IsPrefix(NOISE, NOISE')
            /\ IsPrefix(visited, visited')]_vars

\* a returned run with noise and with two clusters, one of which has grown
C17_Witness ==
    /\ Returned /\ ValidParams
    /\ NOISE # <<>>
    /\ Len(Clusters) >= 2
    /\ \E c \in 1..Len(Clusters) : Len(Clusters[c].pts) >= 2

\* the number of clusters that p is a member of
ClusterCount(p) ==
    Cardinality({ c \in 1..Len(Clusters) : InSeq(p, Clusters[c].pts) })

\* C18: when run() returns, with valid parameters, every core point is a
\* member of exactly one cluster and is not in the noise list
C18_CoreInOneCluster ==
    (Returned /\ ValidParams)
        => \A n \in 1..Len(D) :
              CorePoint(D[n])
                 => ClusterCount(D[n]) = 1 /\ ~InSeq(D[n], NOISE)

\* a returned run with two clusters, a core point that an expansion reached
\* and a point that is no core point
C18_Witness ==
    /\ Returned /\ ValidParams
    /\ Len(Clusters) >= 2
    /\ \E n \in 1..Len(D) :
          /\ CorePoint(D[n])
          /\ \A c \in 1..Len(Clusters) : Clusters[c].pts[1] # D[n]
    /\ \E n \in 1..Len(D) : ~CorePoint(D[n])

\* C19: when run() returns, with valid parameters, two core points within eps
\* of each other are members of the same clusters, whatever the order of the
\* dataset
C19_CoreNeighborsTogether ==
    (Returned /\ ValidParams)
        => \A a, b \in 1..Len(D) :
              (CorePoint(D[a]) /\ CorePoint(D[b]) /\ Near(D[a], D[b]))
                 => /\ InSomeCluster(D[a])
                    /\ \A c \in 1..Len(Clusters) :
                          InSeq(D[a], Clusters[c].pts)
                             <=> InSeq(D[b], Clusters[c].pts)

\* a returned run in which a core point is in the cluster of a seed that it
\* is not within eps of: it was reached through a core point between them
C19_Witness ==
    /\ Returned /\ ValidParams /\ minPts >= 2
    /\ \E c \in 1..Len(Clusters) :
          \E n \in 1..Len(Clusters[c].pts) :
             /\ CorePoint(Clusters[c].pts[n])
             /\ ~Near(Clusters[c].pts[n], Clusters[c].pts[1])

\* the engine at hand has already returned from a call of run(): the caller
\* gives every engine its own eps, so its results are those with this eps
HasReturned == \E r \in 1..Len(results) : results[r].epsArg = epsArg

\* C20: a call of run() on an engine that has already returned from one
\* changes no cluster, nor the cluster list, the noise list, the visited list
\* or the cluster id counter, and returns what the first call returned
C20_SecondRunNoChange ==
    /\ [](\A a, b \in 1..Len(results) :
             results[a].epsArg = results[b].epsArg => results[a] = results[b])
    /\ [][(HasReturned /\ pc' # "new")
            => UNCHANGED <<Clusters, NOISE, visited, cid>>]_vars

\* the second call on an engine with clusters and noise has returned
C20_Witness ==
    /\ Returned /\ ValidParams
    /\ Len(results) = 2
    /\ results[1].epsArg = results[2].epsArg
    /\ results[2].Clusters # <<>>
    /\ results[2].NOISE # <<>>

====
